---- MODULE Spec2Model ----
(***************************************************************************)
(* Model of the notebook MortalityAnalysis_11.12.2019.ipynb: the table     *)
(* mydata, the working copy X, the train/test split, the two fitted        *)
(* models, the contribution table X_cont, the cross-validation calls, the  *)
(* plot dictionaries dfd and the residual panels.  One action per          *)
(* statement group of the notebook, in the order the cells run.            *)
(*                                                                         *)
(* Numbers are exact rationals <<numerator, denominator>> in lowest terms, *)
(* so the divisions /1000/52 and the 2/3 spring value of Winter are        *)
(* computed, not approximated (floating-point rounding is not modelled).   *)
(* The least-squares solver and the Mersenne-Twister generator are         *)
(* library code: the solver's result is a choice among a bounded family of *)
(* coefficient vectors, the generator is a small congruential generator    *)
(* seeded the way the call seeds it.                                       *)
(***************************************************************************)
EXTENDS Integers, Sequences, FiniteSets, TLC

\* ------------------------------------------------------------- bounds ----
MaxDates == 3        \* a table holds 1..MaxDates quarter-end dates
MaxRuns  == 2        \* the notebook is executed at most MaxRuns times
CoefSeeds == {1, 2}  \* family of coefficient vectors a fit may return
Variants == {1, 2}   \* variants of the numeric content of the table
Shortfalls == {0, 3} \* rows absent at the end of the table

\* ---------------------------------------------------------- rationals ----
Abs(x) == IF x < 0 THEN -x ELSE x

RECURSIVE GCD(_, _)
GCD(a, b) == IF b = 0 THEN a ELSE GCD(b, a % b)

Rat(n, d) ==
  LET g == GCD(Abs(n), Abs(d))
      s == IF d < 0 THEN -1 ELSE 1
  IN  <<(s * n) \div g, (s * d) \div g>>

Int2Rat(n) == <<n, 1>>

RatAdd(a, b) ==
  LET g == GCD(a[2], b[2])
  IN  Rat(a[1] * (b[2] \div g) + b[1] * (a[2] \div g), a[2] * (b[2] \div g))

RatNeg(a) == <<-a[1], a[2]>>

RatSub(a, b) == RatAdd(a, RatNeg(b))

RatMul(a, b) ==
  LET g1 == GCD(Abs(a[1]), b[2])
      g2 == GCD(Abs(b[1]), a[2])
  IN  Rat((a[1] \div g1) * (b[1] \div g2), (a[2] \div g2) * (b[2] \div g1))

RatDiv(a, b) == RatMul(a, Rat(b[2], b[1]))

Zero == Int2Rat(0)
One  == Int2Rat(1)

RECURSIVE SumSeq(_)
SumSeq(s) == IF s = <<>> THEN Zero ELSE RatAdd(Head(s), SumSeq(Tail(s)))

\* ------------------------------------------------------------- frames ----
\* A frame: column names in order, the row positions it holds (positions
\* of the loaded table, in frame order), the date label of every row and
\* the cell values.
EmptyFrame == [cols |-> <<>>, rows |-> <<>>, index |-> <<>>, val |-> <<>>]

Range(s) == {s[i] : i \in DOMAIN s}

HasCol(df, c) == c \in Range(df.cols)

Col(df, c) == [r \in Range(df.rows) |-> df.val[r][c]]

SetCol(df, c, s) ==
  IF HasCol(df, c)
  THEN [df EXCEPT !.val = [r \in DOMAIN df.val |-> [df.val[r] EXCEPT ![c] = s[r]]]]
  ELSE [df EXCEPT !.cols = Append(df.cols, c),
                  !.val  = [r \in DOMAIN df.val |-> (c :> s[r]) @@ df.val[r]]]

Restrict(f, S) == [c \in S |-> f[c]]

SelectCols(df, cs) ==
  [df EXCEPT !.cols = cs,
             !.val  = [r \in DOMAIN df.val |-> Restrict(df.val[r], Range(cs))]]

\* DataFrame.drop(columns=names)
Drop(df, names) ==
  SelectCols(df, SelectSeq(df.cols, LAMBDA c : c \notin names))

\* DataFrame.insert(loc, column, value), loc counted from 0
Insert(df, loc, c, v) ==
  [df EXCEPT !.cols = SubSeq(df.cols, 1, loc) \o <<c>> \o SubSeq(df.cols, loc + 1, Len(df.cols)),
             !.val  = [r \in DOMAIN df.val |-> (c :> v) @@ df.val[r]]]

Min(a, b) == IF a < b THEN a ELSE b

\* variant: the end position taken as inclusive
ILocColsEndInclusive(df, a, b) ==
  SelectCols(df, SubSeq(df.cols, a + 1, Min(b + 1, Len(df.cols))))

\* DataFrame.iloc[:, a:b]: positions from 0, end exclusive, clipped
ILocCols(df, a, b) == SelectCols(df, SubSeq(df.cols, a + 1, Min(b, Len(df.cols))))

\* DataFrame.iloc[:, a:]
ILocColsFrom(df, a) == ILocCols(df, a, Len(df.cols))

\* df[mask], the mask given as the set of rows it keeps
SelectRows(df, mask) ==
  [df EXCEPT !.rows = SelectSeq(df.rows, LAMBDA r : r \in mask)]

SeriesAdd(s, t) == [r \in DOMAIN s |-> RatAdd(s[r], t[r])]
SeriesMul(s, t) == [r \in DOMAIN s |-> RatMul(s[r], t[r])]

\* ---------------------------------------------------------- the table ----
agelist == <<"65", "75", "85">>
agedesc == <<"65-74", "75-84", "85+  ", "All - Test data only">>

DataDictionary ==
  <<"Deaths", "Persons", "Persons_NoAdj", "Rate", "Rate_NoAdj",
    "Year", "Winter", "AF", "VE",
    "Age=M65", "Age=M75", "Age=M85", "Age=F65", "Age=F75", "Age=F85">>

\* quarter-end date of the q-th quarter counted from the quarter ending
\* February 2010: <<year, month>>
QuarterEnd(q) == <<2010 + (q \div 4), 2 + 3 * (q % 4)>>

Month(date) == date[2]

\* the row at position p of a valid table
TableRow(p, startQ, v) ==
  LET d     == (p - 1) \div 6
      k     == (p - 1) % 6
      sex   == k \div 3
      band  == (k % 3) + 1
      date  == QuarterEnd(startQ + d)
      dth   == 10 * band + 2 * sex + d * (v - 1)
      per   == 1000 + 100 * sex
      perNA == per + 10 * v
      ind(s, b) == IF s = sex /\ b = band THEN One ELSE Zero
  IN  [index |-> date,
       val |->
         ("Deaths" :> Int2Rat(dth)) @@ ("Persons" :> Int2Rat(per)) @@
         ("Persons_NoAdj" :> Int2Rat(perNA)) @@
         ("Rate" :> Rat(dth * 52000, per)) @@
         ("Rate_NoAdj" :> Rat(dth * 52000, perNA)) @@
         ("Year" :> Int2Rat(date[1] - 2010)) @@
         ("Winter" :> (IF Month(date) = 2 THEN One
                       ELSE IF Month(date) = 5 THEN Rat(2, 3) ELSE Zero)) @@
         ("AF" :> (IF Month(date) = 2 THEN Int2Rat(10 * v + d)
                   ELSE IF Month(date) = 5 THEN Int2Rat(v) ELSE Zero)) @@
         ("VE" :> Int2Rat(20 * v + 5 * (date[1] - 2010))) @@
         ("Age=M65" :> ind(0, 1)) @@ ("Age=M75" :> ind(0, 2)) @@
         ("Age=M85" :> ind(0, 3)) @@ ("Age=F65" :> ind(1, 1)) @@
         ("Age=F75" :> ind(1, 2)) @@ ("Age=F85" :> ind(1, 3))]

\* the table read by pd.read_pickle: nd dates, six rows per date, the last
\* `short` rows of the last date absent; column `missing` (if it is a
\* column) is absent, and `bad` (if not 0) stands in the first row's own
\* indicator cell
LoadTable(nd, startQ, v, missing, bad, short) ==
  LET n    == 6 * nd - short
      cols == SelectSeq(DataDictionary, LAMBDA c : c # missing)
      cell(p) == IF p = 1 /\ bad # 0
                 THEN [TableRow(p, startQ, v).val EXCEPT !["Age=M65"] = Int2Rat(bad)]
                 ELSE TableRow(p, startQ, v).val
  IN  [cols  |-> cols,
       rows  |-> [p \in 1..n |-> p],
       index |-> [p \in 1..n |-> TableRow(p, startQ, v).index],
       val   |-> [p \in 1..n |-> Restrict(cell(p), Range(cols))]]

\* -------------------------------------------------------------- state ----
VARIABLES
  pickle,      \* the table stored in the file MortalityData_2010to2019
  pc,          \* the statement group the run has completed
  err,         \* the exception that ended the run, "none" while it runs
  mydata,      \* the loaded table, extended by the feature loops
  X,           \* the working copy with the Pred* placeholders
  X_pred,      \* X.iloc[:, 9:]
  X_train,     \* row positions of the training partition, in split order
  X_test,      \* row positions of the holdout partition, in split order
  model,       \* the fitted full model
  model_base,  \* the fitted base model
  X_cont,      \* the contribution table
  cv,          \* the cross_val_score calls made, per age band
  dfd,         \* the list of plot dictionaries
  dfdRows,     \* row positions of the frame behind dfd[6..9]
  resid,       \* the residual panels
  run,         \* how many times the notebook was started
  np_random,   \* state of the global generator when the run starts
  partitions   \* history: the partition made by every run so far

vars == <<pickle, pc, err, mydata, X, X_pred, X_train, X_test, model, model_base,
          X_cont, cv, dfd, dfdRows, resid, run, np_random, partitions>>

NoModel == [coef |-> <<>>, intercept |-> Zero, cols |-> <<>>, rows |-> <<>>]

\* a kernel in which no cell has run yet
Fresh ==
  /\ pc = "start"
  /\ err = "none"
  /\ mydata = EmptyFrame
  /\ X = EmptyFrame
  /\ X_pred = EmptyFrame
  /\ X_train = <<>>
  /\ X_test = <<>>
  /\ model = NoModel
  /\ model_base = NoModel
  /\ X_cont = EmptyFrame
  /\ cv = <<>>
  /\ dfd = [i \in 0..9 |-> <<>>]
  /\ dfdRows = [i \in 6..9 |-> <<>>]
  /\ resid = <<>>

Init ==
  /\ Fresh
  /\ run = 1
  /\ np_random = 1
  /\ partitions = <<>>
  /\ \E nd \in 1..MaxDates, startQ \in 0..3, v \in Variants,
        missing \in Range(DataDictionary) \cup {"none"}, bad \in {0, 2},
        short \in Shortfalls :
       /\ (missing # "none" => bad = 0)
       /\ (short # 0 => missing = "none" /\ bad = 0)
       /\ pickle = LoadTable(nd, startQ, v, missing, bad, short)

\* ------------------------------------------------------ cell 1: load -----
\* mydata = pd.read_pickle("MortalityData_2010to2019")
Load ==
  /\ pc = "start"
  /\ mydata' = pickle
  /\ pc' = "loaded"
  /\ UNCHANGED <<pickle, err, X, X_pred, X_train, X_test, model, model_base,
                 X_cont, cv, dfd, dfdRows, resid, run, np_random, partitions>>

\* an exception ends the run: nothing after the raising statement executes
Raise(e) == pc' = "error" /\ err' = e

\* ------------------------------------------------- cell 2: features ------
\* the column c of df, or a column of zeros when df has no such column
ColOrZero(df, c) ==
  IF HasCol(df, c) THEN Col(df, c) ELSE [r \in Range(df.rows) |-> Zero]

\* variant: an absent column is read as zeros instead of raising
LoopBodySilent(df, age, src1, dst1, src2, dst2) ==
  LET age_col == SeriesAdd(ColOrZero(df, "Age=M" \o age), ColOrZero(df, "Age=F" \o age))
      df1 == SetCol(df, dst1 \o age, SeriesMul(ColOrZero(df, src1), age_col))
  IN  [df  |-> SetCol(df1, dst2 \o age, SeriesMul(ColOrZero(df1, src2), age_col)),
       err |-> "none"]

\* variant: age_col built from the male indicator only
LoopBodyMaleOnly(df, age, src1, dst1, src2, dst2) ==
  IF ~HasCol(df, "Age=M" \o age) \/ ~HasCol(df, "Age=F" \o age)
     \/ ~HasCol(df, src1) \/ ~HasCol(df, src2)
  THEN [df |-> df, err |-> "KeyError"]
  ELSE
    LET age_col == Col(df, "Age=M" \o age)
        df1 == SetCol(df, dst1 \o age, SeriesMul(Col(df, src1), age_col))
    IN  [df  |-> SetCol(df1, dst2 \o age, SeriesMul(Col(df1, src2), age_col)),
         err |-> "none"]

\* variant: the second feature of a pass copied without the age indicator
LoopBodyNoIndicator(df, age, src1, dst1, src2, dst2) ==
  IF ~HasCol(df, "Age=M" \o age) \/ ~HasCol(df, "Age=F" \o age)
     \/ ~HasCol(df, src1) \/ ~HasCol(df, src2)
  THEN [df |-> df, err |-> "KeyError"]
  ELSE
    LET age_col == SeriesAdd(Col(df, "Age=M" \o age), Col(df, "Age=F" \o age))
        df1 == SetCol(df, dst1 \o age, Col(df, src1))
    IN  [df  |-> SetCol(df1, dst2 \o age, SeriesMul(Col(df1, src2), age_col)),
         err |-> "none"]

\* one pass of a feature loop for age band `age`:
\*   age_col = mydata["Age=M"+age] + mydata["Age=F"+age]
\*   mydata[dst1+age] = mydata[src1] * age_col
\*   mydata[dst2+age] = mydata[src2] * age_col
\* a column that is absent raises KeyError at the statement that reads it
LoopBody(df, age, src1, dst1, src2, dst2) ==
  IF ~HasCol(df, "Age=M" \o age) \/ ~HasCol(df, "Age=F" \o age)
  THEN [df |-> df, err |-> "KeyError"]
  ELSE
    LET age_col == SeriesAdd(Col(df, "Age=M" \o age), Col(df, "Age=F" \o age))
    IN  IF ~HasCol(df, src1) THEN [df |-> df, err |-> "KeyError"]
        ELSE
          LET df1 == SetCol(df, dst1 \o age, SeriesMul(Col(df, src1), age_col))
          IN  IF ~HasCol(df1, src2) THEN [df |-> df1, err |-> "KeyError"]
              ELSE [df  |-> SetCol(df1, dst2 \o age, SeriesMul(Col(df1, src2), age_col)),
                    err |-> "none"]

RECURSIVE FeatureLoop(_, _, _, _, _, _)
FeatureLoop(df, i, src1, dst1, src2, dst2) ==
  IF i > 3 THEN [df |-> df, err |-> "none"]
  ELSE LET step == LoopBody(df, agelist[i], src1, dst1, src2, dst2)
       IN  IF step.err # "none" THEN step
           ELSE FeatureLoop(step.df, i + 1, src1, dst1, src2, dst2)

\* for i in range(0,3): WINT_ and IMP_ columns
WinterYearFeatures ==
  /\ pc = "loaded"
  /\ LET res == FeatureLoop(mydata, 1, "Winter", "WINT_", "Year", "IMP_")
     IN  /\ mydata' = res.df
         /\ IF res.err = "none" THEN pc' = "features1" /\ err' = err
            ELSE Raise(res.err)
  /\ UNCHANGED <<pickle, X, X_pred, X_train, X_test, model, model_base, X_cont, cv,
                 dfd, dfdRows, resid, run, np_random, partitions>>

\* for i in range(0,3): AF_ and VE_ columns
FrostVaccineFeatures ==
  /\ pc = "features1"
  /\ LET res == FeatureLoop(mydata, 1, "AF", "AF_", "VE", "VE_")
     IN  /\ mydata' = res.df
         /\ IF res.err = "none" THEN pc' = "features2" /\ err' = err
            ELSE Raise(res.err)
  /\ UNCHANGED <<pickle, X, X_pred, X_train, X_test, model, model_base, X_cont, cv,
                 dfd, dfdRows, resid, run, np_random, partitions>>

\* X = mydata.copy(); X.drop(columns=[...]); four X.insert(...) placeholders
DroppedColumns == {"VE", "Year", "Winter", "AF"}

Placeholders == <<"PredR", "PredD", "PredR_Base", "PredD_Base">>

RECURSIVE InsertAll(_, _, _)
InsertAll(df, names, loc) ==
  IF names = <<>> THEN df
  ELSE InsertAll(Insert(df, loc, Head(names), Zero), Tail(names), loc + 1)

CopyDropInsert ==
  /\ pc = "features2"
  /\ IF \E c \in DroppedColumns : ~HasCol(mydata, c)
     THEN /\ X' = mydata
          /\ Raise("KeyError")
     ELSE /\ X' = InsertAll(Drop(mydata, DroppedColumns), Placeholders, 5)
          /\ pc' = "prepared" /\ err' = err
  /\ UNCHANGED <<pickle, mydata, X_pred, X_train, X_test, model, model_base, X_cont,
                 cv, dfd, dfdRows, resid, run, np_random, partitions>>

\* --------------------------------------------- cell 3: split and fits ----
random_state == 10101

test_size == Rat(2, 10)

Ceil(q) == -((-q[1]) \div q[2])

Floor(q) == q[1] \div q[2]

\* variant: the global generator is used, as with random_state=None
check_random_state_global(seed) == np_random

\* the generator train_test_split builds from an integer random_state: a
\* fresh generator seeded with it, whatever the global generator holds
check_random_state(seed) == seed

\* one draw of the generator: the next state
Draw(s) == (s * 75 + 74) % 65537

Swap(arr, i, j) == [arr EXCEPT ![i] = arr[j], ![j] = arr[i]]

\* rng.permutation(n): Fisher-Yates over the positions 1..n
RECURSIVE Shuffle(_, _, _)
Shuffle(arr, i, s) ==
  IF i <= 1 THEN arr
  ELSE LET s1 == Draw(s)
       IN  Shuffle(Swap(arr, i, (s1 % i) + 1), i - 1, s1)

Permutation(n, s) == Shuffle([p \in 1..n |-> p], n, s)

\* train_test_split(..., test_size=0.2, random_state=seed) on n rows:
\* n_test = ceil(test_size * n), n_train = floor((1 - test_size) * n),
\* test = permutation[:n_test], train = permutation[n_test:n_test+n_train]
train_test_split(n, seed) ==
  LET n_test  == Ceil(RatMul(test_size, Int2Rat(n)))
      n_train == Floor(RatMul(RatSub(One, test_size), Int2Rat(n)))
      perm    == Permutation(n, check_random_state(seed))
  IN  [train |-> SubSeq(perm, n_test + 1, n_test + n_train),
       test  |-> SubSeq(perm, 1, n_test)]

\* X_pred = X.iloc[:,9:]; y = X["Rate"]; train_test_split(...)
Split ==
  /\ pc = "prepared"
  /\ X_pred' = ILocColsFrom(X, 9)
  /\ IF ~HasCol(X, "Rate")
     THEN /\ Raise("KeyError")
          /\ UNCHANGED <<X_train, X_test, partitions>>
     ELSE LET sp == train_test_split(Len(X.rows), random_state)
          IN  /\ X_train' = sp.train
              /\ X_test' = sp.test
              /\ partitions' = Append(partitions, sp)
              /\ pc' = "split" /\ err' = err
  /\ UNCHANGED <<pickle, mydata, X, model, model_base, X_cont, cv, dfd, dfdRows,
                 resid, run, np_random>>

\* a coefficient vector of the bounded family, one entry per column
CoefVector(k, n) == [i \in 1..n |-> Int2Rat(((i * k) % 5) - 2)]

\* LinearRegression().fit(frame columns `cols`, training rows `rows`): the
\* solver returns a least-squares solution for any design matrix, also a
\* rank-deficient one; no exception path exists in the call
Fit(k, cols, rows) ==
  [coef |-> CoefVector(k, Len(cols)), intercept |-> Int2Rat(3 * k),
   cols |-> cols, rows |-> rows]

\* model.predict(frame): intercept + sum of coef[i] * column i, per row
Predict(m, df) ==
  [r \in Range(df.rows) |->
     RatAdd(m.intercept,
            SumSeq([i \in 1..Len(m.coef) |-> RatMul(m.coef[i], df.val[r][df.cols[i]])]))]

\* series / 1000 / 52
Per1000Per52(s) == [r \in DOMAIN s |-> RatDiv(RatDiv(s[r], Int2Rat(1000)), Int2Rat(52))]

\* variant: a fit that refuses a design matrix whose age indicators add up
\* to the intercept's constant column
FitFullRejectSingular ==
  /\ pc = "split"
  /\ IF \A r \in Range(X_train) :
          SumSeq([i \in 1..Len(X_pred.cols) |->
                    IF X_pred.cols[i] \in {"Age=M65", "Age=M75", "Age=M85",
                                           "Age=F65", "Age=F75", "Age=F85"}
                    THEN X_pred.val[r][X_pred.cols[i]] ELSE Zero]) = One
     THEN /\ Raise("LinAlgError")
          /\ UNCHANGED model
     ELSE /\ \E k \in CoefSeeds : model' = Fit(k, X_pred.cols, X_train)
          /\ pc' = "fitted" /\ err' = err
  /\ UNCHANGED <<pickle, mydata, X, X_pred, X_train, X_test, model_base, X_cont,
                 cv, dfd, dfdRows, resid, run, np_random, partitions>>

\* model = LinearRegression(); model.fit(X_train, y_train)
FitFull ==
  /\ pc = "split"
  /\ \E k \in CoefSeeds : model' = Fit(k, X_pred.cols, X_train)
  /\ pc' = "fitted"
  /\ UNCHANGED <<pickle, err, mydata, X, X_pred, X_train, X_test, model_base, X_cont,
                 cv, dfd, dfdRows, resid, run, np_random, partitions>>

\* X["PredR"] = model.predict(X_pred)
\* X["PredD"] = mydata['Persons'] * X["PredR"] / 1000 / 52
PredictFull ==
  /\ pc = "fitted"
  /\ LET X1 == SetCol(X, "PredR", Predict(model, X_pred))
     IN  IF ~HasCol(mydata, "Persons")
         THEN /\ X' = X1
              /\ Raise("KeyError")
         ELSE /\ X' = SetCol(X1, "PredD",
                        Per1000Per52(SeriesMul(Col(mydata, "Persons"), Col(X1, "PredR"))))
              /\ pc' = "predicted" /\ err' = err
  /\ UNCHANGED <<pickle, mydata, X_pred, X_train, X_test, model, model_base, X_cont,
                 cv, dfd, dfdRows, resid, run, np_random, partitions>>

\* X_cont = X_pred.mul(model.coef_, axis=1)
MulCoef(df, coef) ==
  [df EXCEPT !.val = [r \in DOMAIN df.val |->
     [c \in Range(df.cols) |->
        RatMul(df.val[r][c], coef[CHOOSE i \in 1..Len(df.cols) : df.cols[i] = c])]]]

\* variant: the division by 52 left out
MulRowsPer1000Only(df, s) ==
  [df EXCEPT !.val = [r \in DOMAIN df.val |->
     [c \in Range(df.cols) |-> RatDiv(RatMul(df.val[r][c], s[r]), Int2Rat(1000))]]]

\* X_cont = X_cont.mul(list(mydata["Persons"]), axis=0) / 1000 / 52
MulRowsPer1000Per52(df, s) ==
  [df EXCEPT !.val = [r \in DOMAIN df.val |->
     [c \in Range(df.cols) |->
        RatDiv(RatDiv(RatMul(df.val[r][c], s[r]), Int2Rat(1000)), Int2Rat(52))]]]

Decompose ==
  /\ pc = "predicted"
  /\ IF ~HasCol(mydata, "Persons")
     THEN /\ X_cont' = MulCoef(X_pred, model.coef)
          /\ Raise("KeyError")
     ELSE /\ X_cont' = MulRowsPer1000Per52(MulCoef(X_pred, model.coef),
                                           Col(mydata, "Persons"))
          /\ pc' = "decomposed" /\ err' = err
  /\ UNCHANGED <<pickle, mydata, X, X_pred, X_train, X_test, model, model_base, cv,
                 dfd, dfdRows, resid, run, np_random, partitions>>

\* model_base = LinearRegression(); model_base.fit(X_train.iloc[:,:12], y_train)
FitBase ==
  /\ pc = "decomposed"
  /\ \E k \in CoefSeeds :
       model_base' = Fit(k, ILocCols(X_pred, 0, 12).cols, X_train)
  /\ pc' = "fitted_base"
  /\ UNCHANGED <<pickle, err, mydata, X, X_pred, X_train, X_test, model, X_cont, cv,
                 dfd, dfdRows, resid, run, np_random, partitions>>

\* X["PredR_Base"] = model_base.predict(X_pred.iloc[:,:12])
\* X["PredD_Base"] = mydata['Persons'] * X["PredR_Base"] / 1000 / 52
PredictBase ==
  /\ pc = "fitted_base"
  /\ LET X1 == SetCol(X, "PredR_Base", Predict(model_base, ILocCols(X_pred, 0, 12)))
     IN  IF ~HasCol(mydata, "Persons")
         THEN /\ X' = X1
              /\ Raise("KeyError")
         ELSE /\ X' = SetCol(X1, "PredD_Base",
                        Per1000Per52(SeriesMul(Col(mydata, "Persons"), Col(X1, "PredR_Base"))))
              /\ pc' = "predicted_base" /\ err' = err
  /\ UNCHANGED <<pickle, mydata, X_pred, X_train, X_test, model, model_base, X_cont,
                 cv, dfd, dfdRows, resid, run, np_random, partitions>>

\* df[(df["Age=M"+age] == 1) | (df["Age=F"+age] == 1)]
AgeFilter(df, age) ==
  SelectRows(df, {r \in Range(df.rows) : \/ df.val[r]["Age=M" \o age] = One
                                          \/ df.val[r]["Age=F" \o age] = One})

\* KFold(n_splits=5), no shuffling: five consecutive blocks of the rows, the
\* first n % 5 of them one row longer
n_splits == 5

KFold(rows) ==
  LET n == Len(rows)
      size(f) == (n \div n_splits) + (IF f <= n % n_splits THEN 1 ELSE 0)
      start(f) == (f - 1) * (n \div n_splits) + Min(f - 1, n % n_splits)
  IN  [f \in 1..n_splits |-> SubSeq(rows, start(f) + 1, start(f) + size(f))]

\* cross_val_score(LinearRegression(), predictors, target, cv=5): the call
\* as made; one score per fold
cross_val_score(predictors) ==
  [cols |-> predictors.cols, rows |-> predictors.rows, folds |-> KFold(predictors.rows)]

\* for i in range(0,3): the two cross_val_score calls of one age band;
\* fewer rows than folds raises ValueError and ends the loop
RECURSIVE CrossValidateFrom(_, _)
CrossValidateFrom(i, done) ==
  IF i > 3 THEN [cv |-> done, err |-> "none"]
  ELSE LET Xg == AgeFilter(X, agelist[i])
       IN  IF Len(Xg.rows) < n_splits THEN [cv |-> done, err |-> "ValueError"]
           ELSE CrossValidateFrom(i + 1,
                  Append(done, [age  |-> agedesc[i],
                                full |-> cross_val_score(ILocColsFrom(Xg, 7)),
                                base |-> cross_val_score(ILocCols(Xg, 7, 19))]))

CrossValidate ==
  /\ pc = "predicted_base"
  /\ LET res == CrossValidateFrom(1, <<>>)
     IN  /\ cv' = res.cv
         /\ IF res.err = "none" THEN pc' = "validated" /\ err' = err
            ELSE Raise(res.err)
  /\ UNCHANGED <<pickle, mydata, X, X_pred, X_train, X_test, model, model_base,
                 X_cont, dfd, dfdRows, resid, run, np_random, partitions>>

\* ------------------------------------------------ cell 4: aggregation ----
DateLess(a, b) == a[1] < b[1] \/ (a[1] = b[1] /\ a[2] < b[2])

RECURSIVE SortDates(_)
SortDates(S) ==
  IF S = {} THEN <<>>
  ELSE LET m == CHOOSE a \in S : \A b \in S \ {a} : DateLess(a, b)
       IN  <<m>> \o SortDates(S \ {m})

\* df.groupby(df.index).sum(): one row per date, every column summed over
\* the rows of the frame that carry the date
GroupBySum(df) ==
  LET dates == {df.index[r] : r \in Range(df.rows)}
      of(d) == SelectSeq(df.rows, LAMBDA r : df.index[r] = d)
  IN  [cols  |-> df.cols,
       rows  |-> SortDates(dates),
       index |-> [d \in dates |-> d],
       val   |-> [d \in dates |->
                    [c \in Range(df.cols) |->
                       SumSeq([j \in 1..Len(of(d)) |-> df.val[of(d)[j]][c]])]]]

\* variant: the winter filter left out
WinterFilterNone(df) == df

winter_month == 2

\* df[df.index.month == 2]
WinterFilter(df) ==
  SelectRows(df, {r \in Range(df.rows) : Month(df.index[r]) = winter_month})

SeriesSub(s, t) == [r \in DOMAIN s |-> RatSub(s[r], t[r])]

\* s / t * 1000 * 52
RatePer1000(s, t) ==
  [r \in DOMAIN s |-> RatMul(RatMul(RatDiv(s[r], t[r]), Int2Rat(1000)), Int2Rat(52))]

\* dict.update({key: value})
Update(dict, key, value) == (key :> value) @@ dict

\* one pass of the loop `for i in range(0,4)` (i counted from 1 here)
AggregatePass(d, i) ==
  IF i < 4
  THEN LET age == agelist[i]
           Xg  == GroupBySum(AgeFilter(X, age))
           Xgw == GroupBySum(WinterFilter(Xg))
           Xgc == GroupBySum(WinterFilter(X_cont))
       IN  [d EXCEPT
              ![0] = Update(@, "Actual - Age " \o agedesc[i], Col(Xg, "Deaths")),
              ![1] = Update(@, "Unexplained - Age " \o agedesc[i],
                            SeriesSub(Col(Xg, "Deaths"), Col(Xg, "PredD"))),
              ![2] = Update(@, "Actual - Age " \o agedesc[i],
                            SeriesSub(Col(Xgw, "Deaths"), Col(Xgw, "PredD_Base"))),
              ![3] = Update(@, "Unexplained - Age " \o agedesc[i],
                            SeriesSub(Col(Xgw, "Deaths"), Col(Xgw, "PredD"))),
              ![4] = Update(@, "Contribution - AF " \o agedesc[i], Col(Xgc, "AF_" \o age)),
              ![5] = Update(@, "Contribution - VE " \o agedesc[i], Col(Xgc, "VE_" \o age)),
              ![i + 5] =
                 ("Actual - Age " \o agedesc[i] :>
                    RatePer1000(Col(Xg, "Deaths"), Col(Xg, "Persons"))) @@
                 ("Predicted - Age " \o agedesc[i] :>
                    RatePer1000(Col(Xg, "PredD"), Col(Xg, "Persons")))]
  ELSE LET Xg == GroupBySum(X)
       IN  [d EXCEPT
              ![i + 5] =
                 ("Actual - Age " \o agedesc[i] :>
                    RatePer1000(Col(Xg, "Deaths"), Col(Xg, "Persons"))) @@
                 ("Predicted - Age " \o agedesc[i] :>
                    RatePer1000(Col(Xg, "PredD"), Col(Xg, "Persons")))]

\* the rows of X behind the frame Xg of pass i
GroupRows(i) == IF i < 4 THEN AgeFilter(X, agelist[i]).rows ELSE X.rows

RECURSIVE AggregateFrom(_, _)
AggregateFrom(d, i) == IF i > 4 THEN d ELSE AggregateFrom(AggregatePass(d, i), i + 1)

\* dfd = [{},...]; for i in range(0,4): ...  A table without Deaths raises
\* KeyError at the first statement that reads it, before any dictionary is
\* filled
Aggregate ==
  /\ pc = "validated"
  /\ IF ~HasCol(X, "Deaths")
     THEN /\ Raise("KeyError")
          /\ UNCHANGED <<dfd, dfdRows>>
     ELSE /\ dfd' = AggregateFrom([i \in 0..9 |-> <<>>], 1)
          /\ dfdRows' = [j \in 6..9 |-> GroupRows(j - 5)]
          /\ pc' = "aggregated" /\ err' = err
  /\ UNCHANGED <<pickle, mydata, X, X_pred, X_train, X_test, model, model_base,
                 X_cont, cv, resid, run, np_random, partitions>>

\* ---------------------------------------------- cell 7: residual plots ---
\* for i in range(0,4): X1 = X[filter] (or X); r2_score(X1["Rate"], X1["PredR"])
\* and sns.residplot(X1["Rate"], X1["PredR"]) under the title agedesc[i]
ResidualPanel(i) ==
  LET X1 == IF i < 4 THEN AgeFilter(X, agelist[i]) ELSE X
  IN  [title  |-> "Age: " \o agedesc[i],
       rows   |-> X1.rows,
       y_true |-> Col(X1, "Rate"),
       y_pred |-> Col(X1, "PredR")]

Residuals ==
  /\ pc = "aggregated"
  /\ resid' = [i \in 1..4 |-> ResidualPanel(i)]
  /\ pc' = "done"
  /\ UNCHANGED <<pickle, err, mydata, X, X_pred, X_train, X_test, model,
                 model_base, X_cont, cv, dfd, dfdRows, run, np_random, partitions>>

\* --------------------------------------------------------- a new run -----
\* the notebook is run again from the first cell in a new kernel: the file
\* is the same, the global generator is wherever the new process left it
Restart ==
  /\ pc = "done"
  /\ run < MaxRuns
  /\ run' = run + 1
  /\ np_random' = Draw(np_random)
  /\ pc' = "start"
  /\ err' = "none"
  /\ mydata' = EmptyFrame
  /\ X' = EmptyFrame
  /\ X_pred' = EmptyFrame
  /\ X_train' = <<>>
  /\ X_test' = <<>>
  /\ model' = NoModel
  /\ model_base' = NoModel
  /\ X_cont' = EmptyFrame
  /\ cv' = <<>>
  /\ dfd' = [i \in 0..9 |-> <<>>]
  /\ dfdRows' = [i \in 6..9 |-> <<>>]
  /\ resid' = <<>>
  /\ UNCHANGED <<pickle, partitions>>

Next ==
  \/ Load
  \/ WinterYearFeatures
  \/ FrostVaccineFeatures
  \/ CopyDropInsert
  \/ Split
  \/ FitFull
  \/ PredictFull
  \/ Decompose
  \/ FitBase
  \/ PredictBase
  \/ CrossValidate
  \/ Aggregate
  \/ Residuals
  \/ Restart

Spec == Init /\ [][Next]_vars

\* ================================================================ claims ==
AgeIndicators == {"Age=M65", "Age=M75", "Age=M85", "Age=F65", "Age=F75", "Age=F85"}

WinterYearColumns == {"WINT_65", "IMP_65", "WINT_75", "IMP_75", "WINT_85", "IMP_85"}

FrostVaccineColumns == {"AF_65", "VE_65", "AF_75", "VE_75", "AF_85", "VE_85"}

Binary(df) ==
  \A r \in Range(df.rows), c \in AgeIndicators \cap Range(df.cols) :
    df.val[r][c] \in {Zero, One}

SchemaViolated ==
  \/ \E c \in Range(DataDictionary) : ~HasCol(pickle, c)
  \/ ~Binary(pickle)

Aggregated == pc \in {"aggregated", "done"}

\* sum of column c of frame df over the rows of S, taken in frame order
DirectSum(df, S, c) ==
  LET rs == SelectSeq(df.rows, LAMBDA r : r \in S)
  IN  SumSeq([j \in 1..Len(rs) |-> df.val[rs[j]][c]])

\* ---- C1 ------------------------------------------------------------------
\* C1: for every row, the contributions X_cont[row, col] summed over all
\* full-model predictor columns, plus intercept * Persons / 1000 / 52, equal
\* the row's predicted death count PredD.
C1_ContributionsReconcile ==
  X_cont.cols # <<>> =>
    \A r \in Range(X.rows) :
      RatAdd(SumSeq([i \in 1..Len(X_cont.cols) |-> X_cont.val[r][X_cont.cols[i]]]),
             RatDiv(RatDiv(RatMul(model.intercept, mydata.val[r]["Persons"]),
                           Int2Rat(1000)), Int2Rat(52)))
        = X.val[r]["PredD"]

C1_Witness ==
  /\ pc = "decomposed"
  /\ \E r \in Range(X.rows) :
       /\ \E c \in Range(X_cont.cols) : X_cont.val[r][c][1] > 0
       /\ \E c \in Range(X_cont.cols) : X_cont.val[r][c][1] < 0
       /\ X.val[r]["PredD"] # Zero

\* ---- C2 ------------------------------------------------------------------
\* C2: for every age band the full-model cross-validation uses exactly the
\* columns the full model is fitted on, and the base-model cross-validation
\* exactly the columns the base model is fitted on.
C2_CrossValidationColumns ==
  ~SchemaViolated =>
  \A j \in 1..Len(cv) :
    /\ Range(cv[j].full.cols) = Range(model.cols)
    /\ Range(cv[j].base.cols) = Range(model_base.cols)

\* ---- C3 ------------------------------------------------------------------
\* C3: for a table with the columns of the data dictionary in order, the
\* base predictor set is the six age indicators plus WINT_a and IMP_a, a
\* strict subset of the full predictor set, without AF_a or VE_a; the full
\* set holds no target, population or Pred* column.
C3_PredictorSets ==
  (pickle.cols = DataDictionary /\ model_base # NoModel) =>
    /\ Range(model_base.cols) = AgeIndicators \cup WinterYearColumns
    /\ model.cols = X_pred.cols
    /\ Range(model_base.cols) \subseteq Range(model.cols)
    /\ Range(model_base.cols) # Range(model.cols)
    /\ Range(model_base.cols) \cap FrostVaccineColumns = {}
    /\ Range(model.cols) \cap
         ({"Deaths", "Persons", "Persons_NoAdj", "Rate", "Rate_NoAdj"}
            \cup Range(Placeholders)) = {}
    /\ Range(model.cols) = AgeIndicators \cup WinterYearColumns \cup FrostVaccineColumns

C3_Witness ==
  /\ pc = "fitted_base"
  /\ pickle.cols = DataDictionary
  /\ Len(model_base.cols) = 12
  /\ Len(model.cols) = 18

\* ---- C4 ------------------------------------------------------------------
NoFitYet == model = NoModel /\ model_base = NoModel /\ cv = <<>>

\* C4 as stated: a table that violates the schema (a column absent, or an
\* indicator cell other than 0 or 1) never reaches a model fit.
C4_SchemaFailsFast == SchemaViolated => NoFitYet

\* the columns the cells read by name before the first fit
ReadBeforeFit == AgeIndicators \cup DroppedColumns \cup {"Rate"}

\* C4 amended: when a column read by name before the first fit (an age
\* indicator, Winter, Year, AF, VE or Rate) is absent, the run ends with a
\* KeyError and no fit is ever performed.
C4_MissingReadColumnFailsFast ==
  (\E c \in ReadBeforeFit : ~HasCol(pickle, c)) =>
    /\ NoFitYet
    /\ pc \in {"start", "loaded", "features1", "features2", "prepared", "error"}
    /\ (pc = "error" => err = "KeyError")
    /\ (pc = "prepared" => ~HasCol(pickle, "Rate"))

C4_Witness ==
  /\ pc = "error"
  /\ err = "KeyError"
  /\ ~HasCol(pickle, "Age=F85")
  /\ HasCol(mydata, "IMP_75")
  /\ NoFitYet

\* ---- C5 ------------------------------------------------------------------
\* the design matrix (columns cols of X_pred on the rows given, next to the
\* intercept's constant column) is singular: the age indicators add up to
\* the constant column, or two columns are equal
Singular(cols, rows) ==
  /\ rows # <<>>
  /\ \/ \A r \in Range(rows) :
          SumSeq([i \in 1..Len(cols) |->
                    IF cols[i] \in AgeIndicators THEN X_pred.val[r][cols[i]] ELSE Zero]) = One
     \/ \E i, j \in 1..Len(cols) :
          i < j /\ \A r \in Range(rows) : X_pred.val[r][cols[i]] = X_pred.val[r][cols[j]]

\* C5 as stated: a fit on a singular design matrix returns no coefficient
\* vector.
C5_SingularReported ==
  (~SchemaViolated /\ pc = "fitted" /\ Singular(model.cols, model.rows)) =>
    model.coef = <<>>

\* C5 amended: a fit on a singular design matrix returns a coefficient
\* vector, one entry per column, without an error, and the run goes on to
\* prediction and decomposition.
C5_SingularFitContinues ==
  [][/\ (pc = "split" /\ Singular(X_pred.cols, X_train)) =>
          /\ pc' = "fitted" /\ err' = "none"
          /\ Len(model'.coef) = Len(X_pred.cols) /\ model'.coef # <<>>
     /\ (pc = "decomposed" /\ Singular(ILocCols(X_pred, 0, 12).cols, X_train)) =>
          /\ pc' = "fitted_base" /\ err' = "none"
          /\ Len(model_base'.coef) = Len(ILocCols(X_pred, 0, 12).cols)
     /\ (pc = "fitted" /\ HasCol(mydata, "Persons")) => pc' = "predicted"
     /\ pc = "predicted" => pc' = "decomposed"]_vars

C5_Witness ==
  /\ pc = "decomposed"
  /\ Singular(model.cols, model.rows)
  /\ Len(model.coef) = 18
  /\ Len(X_cont.cols) = 18

\* ---- C6 ------------------------------------------------------------------
FeaturesBuilt == HasCol(mydata, "VE_85")

InteractionColumns ==
  <<"WINT_65", "IMP_65", "WINT_75", "IMP_75", "WINT_85", "IMP_85",
    "AF_65", "VE_65", "AF_75", "VE_75", "AF_85", "VE_85">>

\* C6: after the feature loops every interaction column of every row is the
\* base feature times (Age=Ma + Age=Fa); exactly the 12 interaction columns
\* were added and the original columns are unchanged.
C6_InteractionFeatures ==
  FeaturesBuilt =>
    /\ mydata.cols = pickle.cols \o InteractionColumns
    /\ \A r \in Range(pickle.rows) :
         /\ \A c \in Range(pickle.cols) : mydata.val[r][c] = pickle.val[r][c]
         /\ \A i \in 1..3 :
              LET a   == agelist[i]
                  ind == RatAdd(pickle.val[r]["Age=M" \o a], pickle.val[r]["Age=F" \o a])
              IN  /\ mydata.val[r]["WINT_" \o a] = RatMul(pickle.val[r]["Winter"], ind)
                  /\ mydata.val[r]["IMP_" \o a]  = RatMul(pickle.val[r]["Year"], ind)
                  /\ mydata.val[r]["AF_" \o a]   = RatMul(pickle.val[r]["AF"], ind)
                  /\ mydata.val[r]["VE_" \o a]   = RatMul(pickle.val[r]["VE"], ind)

C6_Witness ==
  /\ pc = "features2"
  /\ \E r, q \in Range(mydata.rows) :
       /\ mydata.val[r]["Age=F75"] = One
       /\ mydata.val[r]["WINT_75"] = Rat(2, 3)
       /\ mydata.val[r]["IMP_75"] = One
       /\ mydata.val[r]["AF_75"] # Zero
       /\ mydata.val[r]["AF_65"] = Zero
       /\ mydata.val[q]["Age=M65"] = Int2Rat(2)
       /\ mydata.val[q]["VE_65"] = RatMul(Int2Rat(2), mydata.val[q]["VE"])

\* ---- C7 ------------------------------------------------------------------
\* rows of X that the age filter of band i keeps
BandRows(i) ==
  {r \in Range(X.rows) : \/ X.val[r]["Age=M" \o agelist[i]] = One
                         \/ X.val[r]["Age=F" \o agelist[i]] = One}

\* the dates of the rows of S that are February quarter ends
WinterDates(S) == {X.index[r] : r \in {q \in S : X.index[q][2] = 2}}

OnDate(S, d) == {r \in S : X.index[r] = d}

\* C7: every key of the four winter series is a February quarter end; the
\* value at a date sums exactly the February rows of that date (of the band
\* for the excess and unexplained series, of the whole table for the
\* contribution series), and every such date is a key.
C7_WinterSeries ==
  Aggregated =>
    \A i \in 1..3 :
      LET a      == agelist[i]
          excess == dfd[2]["Actual - Age " \o agedesc[i]]
          unexpl == dfd[3]["Unexplained - Age " \o agedesc[i]]
          contAF == dfd[4]["Contribution - AF " \o agedesc[i]]
          contVE == dfd[5]["Contribution - VE " \o agedesc[i]]
          all    == Range(X.rows)
      IN  /\ DOMAIN excess = WinterDates(BandRows(i))
          /\ DOMAIN unexpl = WinterDates(BandRows(i))
          /\ DOMAIN contAF = WinterDates(all)
          /\ DOMAIN contVE = WinterDates(all)
          /\ \A d \in WinterDates(BandRows(i)) :
               /\ excess[d] = RatSub(DirectSum(X, OnDate(BandRows(i), d), "Deaths"),
                                     DirectSum(X, OnDate(BandRows(i), d), "PredD_Base"))
               /\ unexpl[d] = RatSub(DirectSum(X, OnDate(BandRows(i), d), "Deaths"),
                                     DirectSum(X, OnDate(BandRows(i), d), "PredD"))
          /\ \A d \in WinterDates(all) :
               /\ contAF[d] = DirectSum(X_cont, OnDate(all, d), "AF_" \o a)
               /\ contVE[d] = DirectSum(X_cont, OnDate(all, d), "VE_" \o a)

C7_Witness ==
  /\ pc = "aggregated"
  /\ \E d \in DOMAIN dfd[2]["Actual - Age 75-84"] :
       /\ d[2] = 2
       /\ dfd[4]["Contribution - AF 75-84"][d] # Zero
  /\ \E r \in Range(X.rows) : X.index[r][2] # 2
  /\ \E r \in Range(X.rows) : X.index[r][2] = 5 /\ X_cont.val[r]["AF_75"] # Zero

\* ---- C8 ------------------------------------------------------------------
\* C8: the split is a partition of the rows into a training and a holdout
\* part of 80% and 20% of the rows (in whole rows: the holdout part is a
\* fifth of the rows rounded up); every run on the same file makes the same
\* partition; the base model is fitted on the training rows of the full
\* model.
C8_SplitPartition ==
  /\ \A j \in 1..Len(partitions) :
       LET n  == Len(pickle.rows)
           tr == partitions[j].train
           te == partitions[j].test
       IN  /\ Range(tr) \cap Range(te) = {}
           /\ Range(tr) \cup Range(te) = Range(pickle.rows)
           /\ Len(tr) + Len(te) = n
           /\ Cardinality(Range(tr)) = Len(tr)
           /\ Cardinality(Range(te)) = Len(te)
           /\ 5 * Len(te) >= n /\ 5 * (Len(te) - 1) < n
           /\ partitions[j] = partitions[1]
  /\ (model # NoModel => model.rows = X_train /\ X_train = partitions[run].train)
  /\ (model_base # NoModel => model_base.rows = model.rows)

C8_Witness ==
  /\ Len(partitions) = 2
  /\ pc = "fitted_base"
  /\ Len(pickle.rows) = 15
  /\ Len(X_train) = 12
  /\ Len(X_test) = 3
  /\ model_base.rows = X_train

\* ---- C9 ------------------------------------------------------------------
\* C9: the group labelled "All - Test data only" (dfd[9] and the fourth
\* residual panel) is computed from holdout rows only.
C9_TestDataOnly ==
  ~SchemaViolated =>
    /\ Aggregated => Range(dfdRows[9]) \cap Range(X_train) = {}
    /\ pc = "done" => Range(resid[4].rows) \cap Range(X_train) = {}

\* ---- C10 -----------------------------------------------------------------
OneBandPerRow ==
  \A r \in Range(pickle.rows) :
    /\ \A c \in AgeIndicators \cap Range(pickle.cols) : pickle.val[r][c] \in {Zero, One}
    /\ Cardinality({i \in 1..3 :
          \E c \in {"Age=M" \o agelist[i], "Age=F" \o agelist[i]} :
             HasCol(pickle, c) /\ pickle.val[r][c] = One}) = 1

\* C10: when every row has its indicators set for exactly one band, the AF
\* and VE contribution reported for band a at a winter date (summed over all
\* rows of the date) equals the sum over the rows of band a only, and the
\* rows of the other bands hold zero in columns AF_a and VE_a.
C10_ContributionByBand ==
  (Aggregated /\ OneBandPerRow) =>
    \A i \in 1..3 :
      LET a == agelist[i]
      IN  /\ \A d \in WinterDates(Range(X.rows)) :
               /\ dfd[4]["Contribution - AF " \o agedesc[i]][d]
                    = DirectSum(X_cont, OnDate(BandRows(i), d), "AF_" \o a)
               /\ dfd[5]["Contribution - VE " \o agedesc[i]][d]
                    = DirectSum(X_cont, OnDate(BandRows(i), d), "VE_" \o a)
          /\ \A r \in Range(X.rows) \ BandRows(i) :
               /\ X_cont.val[r]["AF_" \o a] = Zero
               /\ X_cont.val[r]["VE_" \o a] = Zero

C10_Witness ==
  /\ pc = "aggregated"
  /\ OneBandPerRow
  /\ \E d \in WinterDates(Range(X.rows)) :
       /\ dfd[4]["Contribution - AF 65-74"][d] # Zero
       /\ dfd[5]["Contribution - VE 65-74"][d] # Zero
       /\ \E r \in OnDate(Range(X.rows), d) \ BandRows(1) :
            /\ mydata.val[r]["AF"] # Zero
            /\ X_cont.val[r]["AF_75"] # Zero
====
